---- MODULE Spec2Model ----
(***************************************************************************)
(* Model of pybnb's dispatcher-side priority queues (priority_queue.py)    *)
(* and of the worker-side dispatcher proxy (dispatcher_proxy.py).          *)
(*                                                                         *)
(* Python's None is modelled by the empty sequence: an optional value is   *)
(* <<>> (None) or <<v>>.  Heap entries are the tuples the code pushes,     *)
(* <<-priority, cnt, item>>; sorted_by_bound entries are                   *)
(* <<signed bound, cnt, item>>.  Python lists are 0-based, sequences are   *)
(* 1-based: position pos of a list is element pos + 1 of the sequence.     *)
(***************************************************************************)
EXTENDS Integers, Sequences, FiniteSets, TLC

(* ------------------------------ bounds --------------------------------- *)

\* largest value _count may reach (number of accepted puts in a run)
MaxCount == 3

\* tree depths of the nodes handed to put
TreeDepths == {0, 1}

\* user-assigned queue priorities of the nodes handed to a Custom queue
Priorities == {0, 1}

\* bounds of the nodes handed to put
BoundValues == {1, 4, 7}

\* values of best_objective (constructor and update_for_best_objective
\* argument): below, between and above the bounds
BestValues == {0, 5, 8}

\* comm.size: the dispatcher and Size - 1 workers
Size == 3

\* largest number of proxy calls the workers make, together, in a run
MaxCalls == 3

\* the arguments of update: best_objective, previous_bound,
\* explored_nodes_count, node_states.  Floats are written in tenths (see
\* Unit): this is update(2.0, 1.5, 7, [[0.1, 0.2], [0.3]])
UpdateArgs == {<<20, 15, 7, << <<1, 2>>, <<3>> >> >>}

\* largest number of node states in the updates that are packed and unpacked
MaxStates == 2

\* the node states in them: no value, one value, two values
CodecStates == {<<>>, <<3>>, <<1, 2>>}

\* the best objectives the dispatcher puts in its replies and the results
\* it broadcasts in finalize
ReplyBest == {1, 2}

(* ------------------------------ state ---------------------------------- *)

VARIABLES
    kind,             \* which queue class was constructed
    sense,            \* converger.sense
    best_objective,   \* self._best_objective
    count,            \* self._queue._count
    heap,             \* self._queue._heap
    sorted_by_bound,  \* self._sorted_by_bound (Custom variants; else empty)
    op,               \* the last call made on the queue
    arg,              \* its argument: <<node>>, <<best>> or <<>>
    ret,              \* its return value (see each action)
    raised,           \* the exception it raised, or "none"
    nput,             \* number of puts that returned True
    nget,             \* number of gets that returned a node
    npurged,          \* number of nodes returned by update_for_best_objective
    drank,            \* self.dispatcher_rank, the same on every worker
    pc,               \* per worker: where its proxy call stands
    calls,            \* number of proxy calls the workers have issued
    toDisp,           \* per worker: its messages to the dispatcher in flight
    toWorker,         \* per worker: the dispatcher's replies in flight
    matched,          \* per worker: its pending synchronous send was matched
    wbar,             \* per worker: entries into worker_comm.Barrier()
    gbar,             \* per rank: entries into comm.Barrier()
    dpc,              \* where the dispatcher stands
    bcastData,        \* the value the dispatcher broadcast in finalize
    consumed,         \* per worker: number of responses it received
    returned,         \* per worker: number of update calls that returned
    lastRet,          \* per worker: return value of its last call
    bsent,            \* number of barrier messages the root worker issued
    brecv,            \* number of barrier messages the dispatcher received
    nsent,            \* per worker: number of messages it has issued
    received,         \* per worker: what the dispatcher received, in order
    isize,            \* handshake: comm.size
    ptype,            \* handshake: per rank, the ptype it passes to _init
    ipc,              \* handshake: per rank, where its construction stands
    iself,            \* handshake: per rank, the fields it has set so far
    cargs,            \* codec: the arguments of update
    cframe,           \* codec: the frame update built, or <<>>
    cdec,             \* codec: what the frame decodes to, or <<>>
    cpc               \* codec: "start", "packed", "unpacked" or the exception

qvars == <<kind, sense, best_objective, count, heap, sorted_by_bound,
           op, arg, ret, raised, nput, nget, npurged>>

pvars == <<drank, pc, calls, toDisp, toWorker, matched, wbar, gbar, dpc,
           bcastData, consumed, returned, lastRet, bsent, brecv,
           nsent, received>>

ivars == <<isize, ptype, ipc, iself>>

cvars == <<cargs, cframe, cdec, cpc>>

vars == <<kind, sense, best_objective, count, heap, sorted_by_bound,
          op, arg, ret, raised, nput, nget, npurged,
          drank, pc, calls, toDisp, toWorker, matched, wbar, gbar, dpc,
          bcastData, consumed, returned, lastRet, bsent, brecv,
          nsent, received,
          isize, ptype, ipc, iself,
          cargs, cframe, cdec, cpc>>

\* pybnb.common.minimize / maximize: the two values of converger.sense
minimize == "minimize"
maximize == "maximize"

Kinds == {"WorstBoundFirst", "Custom", "BreadthFirst", "DepthFirst"}
CustomKinds == {"Custom", "BreadthFirst", "DepthFirst"}

(* ------------------------------ nodes ---------------------------------- *)

\* the slots of a node that the queues read and write
Node_extract_bound(data) == data.bound
Node_extract_tree_depth(data) == data.tree_depth
Node_extract_queue_priority(data) == data.queue_priority
Node_insert_queue_priority(data, priority) ==
    [data EXCEPT !.queue_priority = priority]

\* the nodes handed to put.  A slot the queue class never reads, or
\* overwrites before reading, is left at 0: tree_depth for WorstBoundFirst
\* and Custom, queue_priority for all but Custom
Nodes(k) ==
    [bound : BoundValues,
     tree_depth : IF k \in {"BreadthFirst", "DepthFirst"}
                  THEN TreeDepths ELSE {0},
     queue_priority : IF k = "Custom" THEN Priorities ELSE {0}]

(* ---------------------------- converger -------------------------------- *)

\* ConvergenceChecker.objective_can_improve: prune when the bound is no
\* better than the incumbent
objective_can_improve(s, best, bound) ==
    IF s = minimize THEN bound < best ELSE bound > best

(* ------------------------------ heapq ---------------------------------- *)

\* Python's tuple comparison on <<-priority, cnt, item>>: cnt is unique, so
\* the comparison is decided before the item is reached
TupleLt(a, b) == a[1] < b[1] \/ (a[1] = b[1] /\ a[2] < b[2])

RECURSIVE siftdown(_, _, _, _)
siftdown(h, startpos, pos, newitem) ==
    IF pos > startpos
    THEN LET parentpos == (pos - 1) \div 2
             parent == h[parentpos + 1]
         IN  IF TupleLt(newitem, parent)
             THEN siftdown([h EXCEPT ![pos + 1] = parent],
                           startpos, parentpos, newitem)
             ELSE [h EXCEPT ![pos + 1] = newitem]
    ELSE [h EXCEPT ![pos + 1] = newitem]

RECURSIVE siftup_loop(_, _, _, _)
siftup_loop(h, startpos, pos, newitem) ==
    LET endpos == Len(h)
        childpos == 2 * pos + 1
    IN  IF childpos < endpos
        THEN LET rightpos == childpos + 1
                 c == IF rightpos < endpos
                         /\ ~TupleLt(h[childpos + 1], h[rightpos + 1])
                      THEN rightpos ELSE childpos
             IN  siftup_loop([h EXCEPT ![pos + 1] = h[c + 1]],
                             startpos, c, newitem)
        ELSE siftdown([h EXCEPT ![pos + 1] = newitem],
                      startpos, pos, newitem)

siftup(h, pos) == siftup_loop(h, pos, pos, h[pos + 1])

heappush(h, item) ==
    LET h1 == Append(h, item)
    IN  siftdown(h1, 0, Len(h1) - 1, item)

\* [heap, item]: the heap after the pop and the popped entry
heappop(h) ==
    LET lastelt == h[Len(h)]
        h1 == SubSeq(h, 1, Len(h) - 1)
    IN  IF h1 # <<>>
        THEN [heap |-> siftup([h1 EXCEPT ![1] = lastelt], 0), item |-> h[1]]
        ELSE [heap |-> h1, item |-> lastelt]

RECURSIVE heapify_loop(_, _)
heapify_loop(h, i) ==
    IF i < 0 THEN h ELSE heapify_loop(siftup(h, i), i - 1)

\* faulty filter(): the list of the entries kept is not made a heap again
heapify_skipped(h) == h

heapify(h) == heapify_loop(h, (Len(h) \div 2) - 1)

(* ---------------------- SortedList (sortedcontainers) ------------------- *)

\* position (number of entries that sort before value) at which add inserts
SortedList_index(sl, value) ==
    Cardinality({i \in 1..Len(sl) : TupleLt(sl[i], value)})

SortedList_add(sl, value) ==
    LET k == SortedList_index(sl, value)
    IN  SubSeq(sl, 1, k) \o <<value>> \o SubSeq(sl, k + 1, Len(sl))

SortedList_contains(sl, value) == \E i \in 1..Len(sl) : sl[i] = value

\* remove(value); the caller raises ValueError when value is not present
SortedList_remove(sl, value) ==
    LET i == CHOOSE j \in 1..Len(sl) : sl[j] = value
    IN  SubSeq(sl, 1, i - 1) \o SubSeq(sl, i + 1, Len(sl))

(* ---------------- _NoThreadingMaxPriorityFirstQueue --------------------- *)

\* faulty put(): the counter is taken from the length of the heap
Queue_put_lencount(h, c, item, priority) ==
    [heap |-> heappush(h, <<-priority, Len(h), item>>), count |-> c + 1,
     cnt |-> Len(h)]

\* faulty put(): pushes the priority without negating it
Queue_put_unnegated(h, c, item, priority) ==
    [heap |-> heappush(h, <<priority, c, item>>), count |-> c + 1, cnt |-> c]

\* put(item, priority): [heap, count, cnt]
Queue_put(h, c, item, priority) ==
    [heap |-> heappush(h, <<-priority, c, item>>), count |-> c + 1, cnt |-> c]

\* faulty get(): returns the root without popping it
Queue_get_peek(h) ==
    IF Len(h) > 0
    THEN [heap |-> h, ret |-> <<h[1][3]>>]
    ELSE [heap |-> h, ret |-> <<>>]

\* get(): [heap, ret] with ret the optional item
Queue_get(h) ==
    IF Len(h) > 0
    THEN LET r == heappop(h) IN [heap |-> r.heap, ret |-> <<r.item[3]>>]
    ELSE [heap |-> h, ret |-> <<>>]

\* next(): the optional item at the root
Queue_next(h) == IF Len(h) > 0 THEN <<h[1][3]>> ELSE <<>>

\* the func both queue classes hand to filter
filter_func(s, best, priority, item) ==
    objective_can_improve(s, best, Node_extract_bound(item))

RECURSIVE filter_loop(_, _, _, _, _, _, _)
filter_loop(h, i, s, best, include_counters, heap_new, removed) ==
    IF i > Len(h)
    THEN [heap |-> heapify(heap_new), removed |-> removed]
    ELSE LET priority == h[i][1]
             cnt == h[i][2]
             item == h[i][3]
         IN  IF filter_func(s, best, -priority, item)
             THEN filter_loop(h, i + 1, s, best, include_counters,
                              Append(heap_new, <<priority, cnt, item>>), removed)
             ELSE IF ~include_counters
             THEN filter_loop(h, i + 1, s, best, include_counters,
                              heap_new, Append(removed, item))
             ELSE filter_loop(h, i + 1, s, best, include_counters,
                              heap_new, Append(removed, <<cnt, item>>))

\* filter(func, include_counters): [heap, removed]
Queue_filter(h, s, best, include_counters) ==
    filter_loop(h, 1, s, best, include_counters, <<>>, <<>>)

(* ------------------------------ queues ---------------------------------- *)

\* A queue object: the fields of the queue class and of its _queue
Q == [best_objective |-> best_objective, count |-> count, heap |-> heap,
      sorted_by_bound |-> sorted_by_bound]

\* faulty key: the bound is not negated for maximize
signed_bound_unsigned(s, bound) == bound

\* the key under which sorted_by_bound files a node
signed_bound(s, bound) == IF s = maximize THEN -bound ELSE bound

\* The result of a call: the queue afterwards, the return value and the
\* exception raised ("none" when the call returned)
Result(q, r, e) == [q |-> q, ret |-> r, raised |-> e]

\* faulty put: the sense test is inverted
WorstBoundFirst_put_sign(q, s, data) ==
    LET bound == Node_extract_bound(data)
    IN  IF objective_can_improve(s, q.best_objective, bound)
        THEN LET priority == IF s = minimize THEN bound ELSE -bound
                 data1 == Node_insert_queue_priority(data, priority)
                 p == Queue_put(q.heap, q.count, data1, priority)
             IN  Result([q EXCEPT !.heap = p.heap, !.count = p.count],
                        <<TRUE>>, "none")
        ELSE Result(q, <<FALSE>>, "none")

\* faulty put: the priority is not recorded on the node
WorstBoundFirst_put_nostamp(q, s, data) ==
    LET bound == Node_extract_bound(data)
    IN  IF objective_can_improve(s, q.best_objective, bound)
        THEN LET priority == IF s = minimize THEN -bound ELSE bound
                 p == Queue_put(q.heap, q.count, data, priority)
             IN  Result([q EXCEPT !.heap = p.heap, !.count = p.count],
                        <<TRUE>>, "none")
        ELSE Result(q, <<FALSE>>, "none")

WorstBoundFirst_put(q, s, data) ==
    LET bound == Node_extract_bound(data)
    IN  IF objective_can_improve(s, q.best_objective, bound)
        THEN LET priority == IF s = minimize THEN -bound ELSE bound
                 data1 == Node_insert_queue_priority(data, priority)
                 p == Queue_put(q.heap, q.count, data1, priority)
             IN  Result([q EXCEPT !.heap = p.heap, !.count = p.count],
                        <<TRUE>>, "none")
        ELSE Result(q, <<FALSE>>, "none")

WorstBoundFirst_get(q) ==
    LET g == Queue_get(q.heap)
    IN  Result([q EXCEPT !.heap = g.heap], g.ret, "none")

WorstBoundFirst_bound(q, s) ==
    IF Len(q.heap) > 0
    THEN LET data == Queue_next(q.heap)[1]
             bound == Node_extract_bound(data)
             priority == Node_extract_queue_priority(data)
         IN  IF (IF s = minimize THEN bound = -priority ELSE bound = priority)
             THEN Result(q, <<bound>>, "none")
             ELSE Result(q, <<>>, "AssertionError")
    ELSE Result(q, <<>>, "none")

WorstBoundFirst_update_for_best_objective(q, s, best) ==
    LET f == Queue_filter(q.heap, s, best, FALSE)
    IN  Result([q EXCEPT !.best_objective = best, !.heap = f.heap],
               f.removed, "none")

\* faulty put: incumbent and bound are swapped in the improvement test
Custom_put_swapped(q, s, data) ==
    LET bound == Node_extract_bound(data)
        priority == Node_extract_queue_priority(data)
    IN  IF objective_can_improve(s, bound, q.best_objective)
        THEN LET p == Queue_put(q.heap, q.count, data, priority)
             IN  Result([q EXCEPT !.heap = p.heap, !.count = p.count,
                            !.sorted_by_bound = SortedList_add(
                                @, <<signed_bound(s, bound), p.cnt, data>>)],
                        <<TRUE>>, "none")
        ELSE Result(q, <<FALSE>>, "none")

Custom_put(q, s, data) ==
    LET bound == Node_extract_bound(data)
        priority == Node_extract_queue_priority(data)
    IN  IF objective_can_improve(s, q.best_objective, bound)
        THEN LET p == Queue_put(q.heap, q.count, data, priority)
             IN  Result([q EXCEPT !.heap = p.heap, !.count = p.count,
                            !.sorted_by_bound = SortedList_add(
                                @, <<signed_bound(s, bound), p.cnt, data>>)],
                        <<TRUE>>, "none")
        ELSE Result(q, <<FALSE>>, "none")

\* faulty get: the node's entry stays in sorted_by_bound
Custom_get_noremove(q, s) ==
    IF Len(q.heap) > 0
    THEN LET g == Queue_get(q.heap)
         IN  Result([q EXCEPT !.heap = g.heap], <<g.ret[1]>>, "none")
    ELSE Result(q, <<>>, "none")

Custom_get(q, s) ==
    IF Len(q.heap) > 0
    THEN LET cnt == q.heap[1][2]
             g == Queue_get(q.heap)
             data == g.ret[1]
             bound == Node_extract_bound(data)
             value == <<signed_bound(s, bound), cnt, data>>
             q1 == [q EXCEPT !.heap = g.heap]
         IN  IF SortedList_contains(q.sorted_by_bound, value)
             THEN Result([q1 EXCEPT !.sorted_by_bound =
                                        SortedList_remove(@, value)],
                         <<data>>, "none")
             ELSE Result(q1, <<>>, "ValueError")
    ELSE Result(q, <<>>, "none")

Custom_bound(q) ==
    IF Len(q.heap) # Len(q.sorted_by_bound)
    THEN Result(q, <<>>, "AssertionError")
    ELSE IF Len(q.heap) > 0
    THEN Result(q, <<Node_extract_bound(q.sorted_by_bound[1][3])>>, "none")
    ELSE Result(q, <<>>, "none")

\* the loop over the (cnt, data) pairs that filter removed
RECURSIVE Custom_update_loop(_, _, _, _, _)
Custom_update_loop(q, s, pairs, i, removed) ==
    IF i > Len(pairs)
    THEN Result(q, removed, "none")
    ELSE LET cnt == pairs[i][1]
             data == pairs[i][2]
             value == <<signed_bound(s, Node_extract_bound(data)), cnt, data>>
         IN  IF SortedList_contains(q.sorted_by_bound, value)
             THEN Custom_update_loop(
                      [q EXCEPT !.sorted_by_bound = SortedList_remove(@, value)],
                      s, pairs, i + 1, Append(removed, data))
             ELSE Result(q, <<>>, "ValueError")

\* faulty update: the filter tests against the old incumbent
Custom_update_for_best_objective_stale(q, s, best) ==
    LET f == Queue_filter(q.heap, s, q.best_objective, TRUE)
    IN  Custom_update_loop([q EXCEPT !.best_objective = best, !.heap = f.heap],
                           s, f.removed, 1, <<>>)

Custom_update_for_best_objective(q, s, best) ==
    LET f == Queue_filter(q.heap, s, best, TRUE)
    IN  Custom_update_loop([q EXCEPT !.best_objective = best, !.heap = f.heap],
                           s, f.removed, 1, <<>>)

\* faulty put: the depth is stamped without the minus sign
BreadthFirst_put_depth(q, s, data) ==
    LET depth == Node_extract_tree_depth(data)
    IN  IF depth >= 0
        THEN Custom_put(q, s, Node_insert_queue_priority(data, depth))
        ELSE Result(q, <<>>, "AssertionError")

BreadthFirst_put(q, s, data) ==
    LET depth == Node_extract_tree_depth(data)
    IN  IF depth >= 0
        THEN Custom_put(q, s, Node_insert_queue_priority(data, -depth))
        ELSE Result(q, <<>>, "AssertionError")

DepthFirst_put(q, s, data) ==
    LET depth == Node_extract_tree_depth(data)
    IN  IF depth >= 0
        THEN Custom_put(q, s, Node_insert_queue_priority(data, depth))
        ELSE Result(q, <<>>, "AssertionError")

\* method dispatch on the class of the queue
put(k, q, s, data) ==
    CASE k = "WorstBoundFirst" -> WorstBoundFirst_put(q, s, data)
      [] k = "Custom" -> Custom_put(q, s, data)
      [] k = "BreadthFirst" -> BreadthFirst_put(q, s, data)
      [] k = "DepthFirst" -> DepthFirst_put(q, s, data)

get(k, q, s) ==
    IF k = "WorstBoundFirst" THEN WorstBoundFirst_get(q) ELSE Custom_get(q, s)

bound(k, q, s) ==
    IF k = "WorstBoundFirst" THEN WorstBoundFirst_bound(q, s) ELSE Custom_bound(q)

update_for_best_objective(k, q, s, best) ==
    IF k = "WorstBoundFirst"
    THEN WorstBoundFirst_update_for_best_objective(q, s, best)
    ELSE Custom_update_for_best_objective(q, s, best)

size(q) == Len(q.heap)

(* ------------------------------ actions --------------------------------- *)

\* the state after a call with result r
Apply(r) ==
    /\ best_objective' = r.q.best_objective
    /\ count' = r.q.count
    /\ heap' = r.q.heap
    /\ sorted_by_bound' = r.q.sorted_by_bound
    /\ ret' = r.ret
    /\ raised' = r.raised

\* a freshly constructed queue
QueueInit ==
    /\ count = 0
    /\ heap = <<>>
    /\ sorted_by_bound = <<>>
    /\ op = "init"
    /\ arg = <<>>
    /\ ret = <<>>
    /\ raised = "none"
    /\ nput = 0
    /\ nget = 0
    /\ npurged = 0

Put ==
    /\ count < MaxCount
    /\ \E data \in Nodes(kind) :
        LET r == put(kind, Q, sense, data)
        IN  /\ Apply(r)
            /\ op' = "put"
            /\ arg' = <<data>>
            /\ nput' = IF r.ret = <<TRUE>> THEN nput + 1 ELSE nput
    /\ UNCHANGED <<kind, sense, nget, npurged>>
    /\ UNCHANGED <<pvars, ivars, cvars>>

Get ==
    /\ LET r == get(kind, Q, sense)
       IN  /\ Apply(r)
           /\ nget' = IF r.ret # <<>> THEN nget + 1 ELSE nget
    /\ op' = "get"
    /\ arg' = <<>>
    /\ UNCHANGED <<kind, sense, nput, npurged>>
    /\ UNCHANGED <<pvars, ivars, cvars>>

Bound ==
    /\ Apply(bound(kind, Q, sense))
    /\ op' = "bound"
    /\ arg' = <<>>
    /\ UNCHANGED <<kind, sense, nput, nget, npurged>>
    /\ UNCHANGED <<pvars, ivars, cvars>>

UpdateForBestObjective ==
    /\ \E best \in BestValues :
        LET r == update_for_best_objective(kind, Q, sense, best)
        IN  /\ Apply(r)
            /\ arg' = <<best>>
            /\ npurged' = npurged + Len(r.ret)
    /\ op' = "update_for_best_objective"
    /\ UNCHANGED <<kind, sense, nput, nget>>
    /\ UNCHANGED <<pvars, ivars, cvars>>

(* ========================== dispatcher proxy ========================== *)

\* DispatcherAction: tags of the messages a worker sends to the dispatcher
DispatcherAction_update == 111
DispatcherAction_solve_finished == 211
DispatcherAction_barrier == 311
DispatcherAction_finalize == 411
DispatcherAction_log_info == 511
DispatcherAction_log_warning == 611
DispatcherAction_log_debug == 711
DispatcherAction_log_error == 811

\* DispatcherResponse: tags of the dispatcher's replies
DispatcherResponse_work == 1111
DispatcherResponse_nowork == 2111

LogTags == {DispatcherAction_log_info, DispatcherAction_log_warning,
            DispatcherAction_log_debug, DispatcherAction_log_error}

Ranks == 0..(Size - 1)
Workers == Ranks \ {drank}

\* ProcessType: the typecodes the processes pass to _init
ProcessType_worker == 0
ProcessType_dispatcher == 1

\* the ranks of a communicator of the given size
CommRanks(n) == 0..(n - 1)

\* comm.allreduce(ptype, op=SUM) over the ranks given
RECURSIVE allreduce_SUM(_, _)
allreduce_SUM(values, ranks) ==
    IF ranks = {}
    THEN 0
    ELSE LET r == CHOOSE x \in ranks : TRUE
         IN  values[r] + allreduce_SUM(values, ranks \ {r})

\* comm.allreduce((ptype, comm.rank), op=MAXLOC): the largest value and the
\* lowest rank that holds it
allreduce_MAXLOC(values, ranks) ==
    LET top == CHOOSE v \in {values[r] : r \in ranks} :
                   \A r \in ranks : values[r] <= v
        loc == CHOOSE r \in ranks :
                   /\ values[r] = top
                   /\ \A q \in ranks : values[q] = top => r <= q
    IN  <<top, loc>>

\* faulty _init: the root worker's rank is not moved off the dispatcher's
init_root_rank_nodec(n, d) == n - 1

\* _init: the "master" worker's rank in a comm of size n whose dispatcher
\* has rank d
init_root_rank(n, d) == IF d = n - 1 THEN (n - 1) - 1 ELSE n - 1

\* comm.Split(0 if comm.rank != drank else 1): the rank of comm rank r in
\* its new communicator is its position among the ranks of its colour
Split_rank(n, d, r) ==
    Cardinality({q \in CommRanks(n) : (q # d) = (r # d) /\ q < r})

\* _init: the "master" worker's rank in comm
root_rank(d) == init_root_rank(Size, d)

\* comm.Split(0 if comm.rank != drank else 1): a worker's rank in wcomm is
\* its position among the workers in comm-rank order
worker_comm_rank(d, r) == Cardinality({q \in Ranks \ {d} : q < r})

\* __init__: the fields of the proxy of the worker with comm.rank r
root_worker_comm_rank == root_rank(drank)

\* faulty __init__: the root worker broadcasts its rank in comm
root_worker_worker_comm_rank_comm == root_rank(drank)

\* __init__: the root worker's rank in worker_comm, which the bcast hands
\* to every worker
root_worker_worker_comm_rank == worker_comm_rank(drank, root_rank(drank))

\* a message in flight: tag, payload, and whether it was sent with Ssend
Msg(tag, data, synchronous) == [tag |-> tag, data |-> data, sync |-> synchronous]

\* mpi_utils.send_nothing(comm, dest, tag, synchronous=False): the channel
\* to dest after the zero-payload send
send_nothing(chan, tag, synchronous) == Append(chan, Msg(tag, <<>>, synchronous))

\* dtype=float: a float is written as the number of its tenths
Unit == 10

\* dtype=float: the integers up to FloatExactMax are floats; above it only
\* every second one is (the significand of a double, scaled down)
FloatExactMax == 16

\* float(n) for an int n >= 0 of at most 2 * FloatExactMax: the nearest
\* float, the one with the even significand on a tie
to_float(n) ==
    IF n <= FloatExactMax \/ n % 2 = 0
    THEN n * Unit
    ELSE IF (n - 1) % 4 = 0 THEN (n - 1) * Unit ELSE (n + 1) * Unit

\* int(x) for a float x >= 0: truncation
to_int(x) == x \div Unit

\* numpy.empty(size, dtype=float): the values an unwritten slot may hold
Junk == {-1, -2}

\* _update: the size of the frame
RECURSIVE frame_size(_, _, _)
frame_size(node_states, i, size_) ==
    IF i > Len(node_states)
    THEN size_
    ELSE frame_size(node_states, i + 1, (size_ + 1) + Len(node_states[i]))

\* faulty _update: pos is not advanced past the length slot
RECURSIVE pack_states_nopos(_, _, _, _)
pack_states_nopos(data, node_states, i, pos) ==
    IF i > Len(node_states)
    THEN data
    ELSE LET udata == node_states[i]
             d1 == [data EXCEPT ![pos + 1] = to_float(Len(udata))]
             d2 == [q \in 1..Len(d1) |->
                       IF pos <= q - 1 /\ q - 1 < pos + Len(udata)
                       THEN udata[(q - 1) - pos + 1] ELSE d1[q]]
         IN  pack_states_nopos(d2, node_states, i + 1, pos + Len(udata))

\* _update: the loop that writes each state's length and values at pos
RECURSIVE pack_states(_, _, _, _)
pack_states(data, node_states, i, pos) ==
    IF i > Len(node_states)
    THEN data
    ELSE LET udata == node_states[i]
             d1 == [data EXCEPT ![pos + 1] = to_float(Len(udata))]
             pos1 == pos + 1
             d2 == [q \in 1..Len(d1) |->
                       IF pos1 <= q - 1 /\ q - 1 < pos1 + Len(udata)
                       THEN udata[(q - 1) - pos1 + 1] ELSE d1[q]]
         IN  pack_states(d2, node_states, i + 1, pos1 + Len(udata))

\* _update up to the Send, for the arguments a and a fresh array full of
\* junk: the frame, or the assertion that failed
update_frame(a, junk) ==
    LET best_objective_ == a[1]
        previous_bound == a[2]
        explored_nodes_count == a[3]
        node_states == a[4]
        size_ == frame_size(node_states, 1, 4)
        node_states_size == Len(node_states)
        data0 == [q \in 1..size_ |-> junk]
        data1 == [data0 EXCEPT ![1] = best_objective_,
                               ![2] = previous_bound,
                               ![3] = to_float(explored_nodes_count),
                               ![4] = to_float(node_states_size)]
        ok == /\ data1[3] = explored_nodes_count * Unit
              /\ to_int(data1[3]) = explored_nodes_count
              /\ data1[4] = node_states_size * Unit
              /\ to_int(data1[4]) = node_states_size
    IN  IF ok
        THEN [data |-> pack_states(data1, node_states, 1, 4),
              raised |-> "none"]
        ELSE [data |-> <<>>, raised |-> "AssertionError"]

Node_extract_best_objective(state) == state[1]

ProxyInit ==
    /\ drank \in Ranks
    /\ pc = [r \in Ranks |-> "idle"]
    /\ calls = 0
    /\ toDisp = [r \in Ranks |-> <<>>]
    /\ toWorker = [r \in Ranks |-> <<>>]
    /\ matched = [r \in Ranks |-> FALSE]
    /\ wbar = [r \in Ranks |-> 0]
    /\ gbar = [r \in Ranks |-> 0]
    /\ dpc = "serve"
    /\ bcastData = <<>>
    /\ consumed = [r \in Ranks |-> 0]
    /\ returned = [r \in Ranks |-> 0]
    /\ lastRet = [r \in Ranks |-> <<>>]
    /\ bsent = 0
    /\ brecv = 0
    /\ nsent = [r \in Ranks |-> 0]
    /\ received = [r \in Ranks |-> <<>>]

\* the channel after worker w issued its last message: the message carries
\* its number in the order of issue
Issued(chan, w) ==
    [chan EXCEPT ![Len(chan)] =
        [tag |-> @.tag, data |-> @.data, sync |-> @.sync, id |-> nsent[w] + 1]]

\* a worker may start a proxy call
CanCall(w) == w \in Workers /\ pc[w] = "idle" /\ calls < MaxCalls

\* faulty _update: returns after the Send, without waiting for the reply
Update_nowait(w) ==
    /\ CanCall(w)
    /\ \E a \in UpdateArgs, junk \in Junk :
        LET f == update_frame(a, junk)
        IN  IF f.raised = "none"
            THEN /\ toDisp' = [toDisp EXCEPT ![w] = Issued(
                        Append(@, Msg(DispatcherAction_update, f.data, FALSE)),
                        w)]
                 /\ nsent' = [nsent EXCEPT ![w] = @ + 1]
                 /\ pc' = pc
            ELSE /\ pc' = [pc EXCEPT ![w] = f.raised]
                 /\ UNCHANGED <<toDisp, nsent>>
    /\ calls' = calls + 1
    /\ UNCHANGED <<drank, toWorker, matched, wbar, gbar, dpc, bcastData,
                   consumed, returned, lastRet, bsent, brecv>>
    /\ UNCHANGED received
    /\ UNCHANGED <<qvars, ivars, cvars>>

\* _update up to the Send: pack the frame and send it
Update(w) ==
    /\ CanCall(w)
    /\ \E a \in UpdateArgs, junk \in Junk :
        LET f == update_frame(a, junk)
        IN  IF f.raised = "none"
            THEN /\ toDisp' = [toDisp EXCEPT ![w] = Issued(
                        Append(@, Msg(DispatcherAction_update, f.data, FALSE)),
                        w)]
                 /\ nsent' = [nsent EXCEPT ![w] = @ + 1]
                 /\ pc' = [pc EXCEPT ![w] = "update_probe"]
            ELSE /\ pc' = [pc EXCEPT ![w] = f.raised]
                 /\ UNCHANGED <<toDisp, nsent>>
    /\ calls' = calls + 1
    /\ UNCHANGED <<drank, toWorker, matched, wbar, gbar, dpc, bcastData,
                   consumed, returned, lastRet, bsent, brecv>>
    /\ UNCHANGED received
    /\ UNCHANGED <<qvars, ivars, cvars>>

\* faulty _update: the nowork branch returns without receiving the message
update_reply_norecv(m) ==
    IF m.tag = DispatcherResponse_nowork
    THEN [recv |-> FALSE, ret |-> <<m.data[1], <<>>>>, raised |-> "none"]
    ELSE IF m.tag = DispatcherResponse_work
    THEN [recv |-> TRUE,
          ret |-> <<Node_extract_best_objective(m.data), <<m.data>>>>,
          raised |-> "none"]
    ELSE [recv |-> FALSE, ret |-> <<>>, raised |-> "AssertionError"]

\* faulty _update: the work branch returns None for the state
update_reply_nostate(m) ==
    IF m.tag = DispatcherResponse_nowork
    THEN [recv |-> TRUE, ret |-> <<m.data[1], <<>>>>, raised |-> "none"]
    ELSE IF m.tag = DispatcherResponse_work
    THEN [recv |-> TRUE,
          ret |-> <<Node_extract_best_objective(m.data), <<>>>>,
          raised |-> "none"]
    ELSE [recv |-> FALSE, ret |-> <<>>, raised |-> "AssertionError"]

\* _update after the Probe found message m: whether m is received, the
\* value returned and the exception raised
update_reply(m) ==
    IF m.tag = DispatcherResponse_nowork
    THEN [recv |-> TRUE, ret |-> <<m.data[1], <<>>>>, raised |-> "none"]
    ELSE IF m.tag = DispatcherResponse_work
    THEN [recv |-> TRUE,
          ret |-> <<Node_extract_best_objective(m.data), <<m.data>>>>,
          raised |-> "none"]
    ELSE [recv |-> FALSE, ret |-> <<>>, raised |-> "AssertionError"]

\* _update from the Probe on: a message for this worker is there
UpdateReply(w) ==
    /\ w \in Workers
    /\ pc[w] = "update_probe"
    /\ toWorker[w] # <<>>
    /\ LET r == update_reply(Head(toWorker[w]))
       IN  /\ toWorker' = [toWorker EXCEPT ![w] = IF r.recv THEN Tail(@) ELSE @]
           /\ consumed' = [consumed EXCEPT ![w] = IF r.recv THEN @ + 1 ELSE @]
           /\ IF r.raised = "none"
              THEN /\ lastRet' = [lastRet EXCEPT ![w] = r.ret]
                   /\ returned' = [returned EXCEPT ![w] = @ + 1]
                   /\ pc' = [pc EXCEPT ![w] = "idle"]
              ELSE /\ pc' = [pc EXCEPT ![w] = r.raised]
                   /\ UNCHANGED <<lastRet, returned>>
    /\ UNCHANGED <<drank, calls, toDisp, matched, wbar, gbar, dpc, bcastData,
                   bsent, brecv>>
    /\ UNCHANGED <<nsent, received>>
    /\ UNCHANGED <<qvars, ivars, cvars>>

\* _barrier: enter worker_comm.Barrier()
Barrier(w) ==
    /\ CanCall(w)
    /\ calls' = calls + 1
    /\ wbar' = [wbar EXCEPT ![w] = @ + 1]
    /\ pc' = [pc EXCEPT ![w] = "barrier_wcomm"]
    /\ UNCHANGED <<drank, toDisp, toWorker, matched, gbar, dpc, bcastData,
                   consumed, returned, lastRet, bsent, brecv>>
    /\ UNCHANGED <<nsent, received>>
    /\ UNCHANGED <<qvars, ivars, cvars>>

\* faulty _barrier: the barrier message is sent without synchronous=True
barrier_send_async(chan) == send_nothing(chan, DispatcherAction_barrier, FALSE)

\* _barrier: the root worker's send of the barrier message
barrier_send(chan) == send_nothing(chan, DispatcherAction_barrier, TRUE)

\* _barrier: leave worker_comm.Barrier(), which every worker has entered;
\* the root worker sends the barrier message, the others enter comm.Barrier()
BarrierLocalDone(w) ==
    /\ w \in Workers
    /\ pc[w] = "barrier_wcomm"
    /\ \A v \in Workers : wbar[v] >= wbar[w]
    /\ IF w = root_worker_comm_rank
       THEN LET chan == Issued(barrier_send(toDisp[w]), w)
            IN  /\ toDisp' = [toDisp EXCEPT ![w] = chan]
                /\ nsent' = [nsent EXCEPT ![w] = @ + 1]
                /\ bsent' = bsent + 1
                /\ IF chan[Len(chan)].sync
                   THEN /\ pc' = [pc EXCEPT ![w] = "barrier_ssend"]
                        /\ gbar' = gbar
                   ELSE /\ pc' = [pc EXCEPT ![w] = "barrier_comm"]
                        /\ gbar' = [gbar EXCEPT ![w] = @ + 1]
       ELSE /\ pc' = [pc EXCEPT ![w] = "barrier_comm"]
            /\ gbar' = [gbar EXCEPT ![w] = @ + 1]
            /\ UNCHANGED <<toDisp, bsent, nsent>>
    /\ UNCHANGED <<drank, calls, toWorker, matched, wbar, dpc, bcastData,
                   consumed, returned, lastRet, brecv>>
    /\ UNCHANGED received
    /\ UNCHANGED <<qvars, ivars, cvars>>

\* _barrier: the synchronous send completed; enter comm.Barrier()
BarrierSendDone(w) ==
    /\ w \in Workers
    /\ pc[w] = "barrier_ssend"
    /\ matched[w]
    /\ matched' = [matched EXCEPT ![w] = FALSE]
    /\ gbar' = [gbar EXCEPT ![w] = @ + 1]
    /\ pc' = [pc EXCEPT ![w] = "barrier_comm"]
    /\ UNCHANGED <<drank, calls, toDisp, toWorker, wbar, dpc, bcastData,
                   consumed, returned, lastRet, bsent, brecv>>
    /\ UNCHANGED <<nsent, received>>
    /\ UNCHANGED <<qvars, ivars, cvars>>

\* _barrier: every rank of comm entered comm.Barrier(); return
BarrierReturn(w) ==
    /\ w \in Workers
    /\ pc[w] = "barrier_comm"
    /\ \A r \in Ranks : gbar[r] >= gbar[w]
    /\ pc' = [pc EXCEPT ![w] = "idle"]
    /\ lastRet' = [lastRet EXCEPT ![w] = <<>>]
    /\ UNCHANGED <<drank, calls, toDisp, toWorker, matched, wbar, gbar, dpc,
                   bcastData, consumed, returned, bsent, brecv>>
    /\ UNCHANGED <<nsent, received>>
    /\ UNCHANGED <<qvars, ivars, cvars>>

\* _solve_finished: only the root worker passes the assertion
SolveFinished(w) ==
    /\ CanCall(w)
    /\ calls' = calls + 1
    /\ IF worker_comm_rank(drank, w) = root_worker_worker_comm_rank
       THEN /\ toDisp' = [toDisp EXCEPT ![w] = Issued(
                   send_nothing(@, DispatcherAction_solve_finished, TRUE), w)]
            /\ nsent' = [nsent EXCEPT ![w] = @ + 1]
            /\ pc' = [pc EXCEPT ![w] = "ssend"]
       ELSE /\ pc' = [pc EXCEPT ![w] = "AssertionError"]
            /\ UNCHANGED <<toDisp, nsent>>
    /\ UNCHANGED <<drank, toWorker, matched, wbar, gbar, dpc, bcastData,
                   consumed, returned, lastRet, bsent, brecv>>
    /\ UNCHANGED received
    /\ UNCHANGED <<qvars, ivars, cvars>>

\* faulty _log_*: the message is sent with Send, which does not wait for
\* the dispatcher
Log_async(w) ==
    /\ CanCall(w)
    /\ calls' = calls + 1
    /\ \E tag \in LogTags :
        toDisp' = [toDisp EXCEPT ![w] =
                      Issued(Append(@, Msg(tag, <<>>, FALSE)), w)]
    /\ nsent' = [nsent EXCEPT ![w] = @ + 1]
    /\ UNCHANGED <<drank, pc, toWorker, matched, wbar, gbar, dpc, bcastData,
                   consumed, returned, lastRet, bsent, brecv>>
    /\ UNCHANGED received
    /\ UNCHANGED <<qvars, ivars, cvars>>

\* _log_info, _log_warning, _log_debug, _log_error: Ssend of the message
Log(w) ==
    /\ CanCall(w)
    /\ calls' = calls + 1
    /\ \E tag \in LogTags :
        toDisp' = [toDisp EXCEPT ![w] =
                      Issued(Append(@, Msg(tag, <<>>, TRUE)), w)]
    /\ nsent' = [nsent EXCEPT ![w] = @ + 1]
    /\ pc' = [pc EXCEPT ![w] = "ssend"]
    /\ UNCHANGED <<drank, toWorker, matched, wbar, gbar, dpc, bcastData,
                   consumed, returned, lastRet, bsent, brecv>>
    /\ UNCHANGED received
    /\ UNCHANGED <<qvars, ivars, cvars>>

\* the Ssend of _solve_finished or _log_* completed; return
SsendDone(w) ==
    /\ w \in Workers
    /\ pc[w] = "ssend"
    /\ matched[w]
    /\ matched' = [matched EXCEPT ![w] = FALSE]
    /\ pc' = [pc EXCEPT ![w] = "idle"]
    /\ lastRet' = [lastRet EXCEPT ![w] = <<>>]
    /\ UNCHANGED <<drank, calls, toDisp, toWorker, wbar, gbar, dpc, bcastData,
                   consumed, returned, bsent, brecv>>
    /\ UNCHANGED <<nsent, received>>
    /\ UNCHANGED <<qvars, ivars, cvars>>

\* faulty _finalize: the root test compares the rank in comm, not the
\* rank in worker_comm, with root_worker_worker_comm_rank
Finalize_commrank(w) ==
    /\ CanCall(w)
    /\ calls' = calls + 1
    /\ IF w = root_worker_worker_comm_rank
       THEN /\ toDisp' = [toDisp EXCEPT ![w] = Issued(
                   send_nothing(@, DispatcherAction_finalize, FALSE), w)]
            /\ nsent' = [nsent EXCEPT ![w] = @ + 1]
       ELSE UNCHANGED <<toDisp, nsent>>
    /\ pc' = [pc EXCEPT ![w] = "finalize_bcast"]
    /\ UNCHANGED <<drank, toWorker, matched, wbar, gbar, dpc, bcastData,
                   consumed, returned, lastRet, bsent, brecv>>
    /\ UNCHANGED received
    /\ UNCHANGED <<qvars, ivars, cvars>>

\* _finalize: the root worker sends the finalize message; join the bcast
Finalize(w) ==
    /\ CanCall(w)
    /\ calls' = calls + 1
    /\ IF worker_comm_rank(drank, w) = root_worker_worker_comm_rank
       THEN /\ toDisp' = [toDisp EXCEPT ![w] = Issued(
                   send_nothing(@, DispatcherAction_finalize, FALSE), w)]
            /\ nsent' = [nsent EXCEPT ![w] = @ + 1]
       ELSE UNCHANGED <<toDisp, nsent>>
    /\ pc' = [pc EXCEPT ![w] = "finalize_bcast"]
    /\ UNCHANGED <<drank, toWorker, matched, wbar, gbar, dpc, bcastData,
                   consumed, returned, lastRet, bsent, brecv>>
    /\ UNCHANGED received
    /\ UNCHANGED <<qvars, ivars, cvars>>

\* _finalize: the bcast delivered the dispatcher's value; return it
FinalizeReturn(w) ==
    /\ w \in Workers
    /\ pc[w] = "finalize_bcast"
    /\ bcastData # <<>>
    /\ lastRet' = [lastRet EXCEPT ![w] = bcastData]
    /\ pc' = [pc EXCEPT ![w] = "finalized"]
    /\ UNCHANGED <<drank, calls, toDisp, toWorker, matched, wbar, gbar, dpc,
                   bcastData, consumed, returned, bsent, brecv>>
    /\ UNCHANGED <<nsent, received>>
    /\ UNCHANGED <<qvars, ivars, cvars>>

(* ----------------------------- dispatcher ------------------------------ *)

\* The dispatcher may receive message i of worker w's channel when no
\* earlier message of that channel has the same tag (MPI's non-overtaking
\* rule for a receive that selects source and tag)
Receivable(w, i) ==
    /\ i \in 1..Len(toDisp[w])
    /\ \A j \in 1..(i - 1) : toDisp[w][j].tag # toDisp[w][i].tag

\* what the dispatcher does with a message of the given tag; the four log
\* tags go to its logger
Action(tag) ==
    CASE tag = DispatcherAction_update -> "update"
      [] tag = DispatcherAction_solve_finished -> "solve_finished"
      [] tag = DispatcherAction_barrier -> "barrier"
      [] tag = DispatcherAction_finalize -> "finalize"
      [] tag \in LogTags -> "log"

RemoveAt(seq, i) == SubSeq(seq, 1, i - 1) \o SubSeq(seq, i + 1, Len(seq))

\* the replies the dispatcher may give to an update: work with a node state
\* whose first slot is the best objective, nowork with the best objective,
\* or (a peer bug) a message with another tag
Replies ==
    {Msg(DispatcherResponse_work, <<b, 0>>, FALSE) : b \in ReplyBest}
    \cup {Msg(DispatcherResponse_nowork, <<b>>, FALSE) : b \in ReplyBest}
    \cup {Msg(DispatcherAction_update, <<>>, FALSE)}

\* the dispatcher receives a message of worker w and acts on its tag: it
\* answers an update, joins comm.Barrier() on barrier, and broadcasts the
\* results on finalize
DispatcherRecv(w) ==
    /\ w \in Workers
    /\ dpc = "serve"
    /\ \E i \in 1..Len(toDisp[w]) :
        /\ Receivable(w, i)
        /\ LET m == toDisp[w][i]
           IN  /\ toDisp' = [toDisp EXCEPT ![w] = RemoveAt(@, i)]
               /\ received' = [received EXCEPT ![w] =
                      Append(@, [id |-> m.id, action |-> Action(m.tag)])]
               /\ matched' = [matched EXCEPT ![w] = @ \/ m.sync]
               /\ IF m.tag = DispatcherAction_update
                  THEN \E reply \in Replies :
                         toWorker' = [toWorker EXCEPT ![w] = Append(@, reply)]
                  ELSE toWorker' = toWorker
               /\ IF m.tag = DispatcherAction_barrier
                  THEN /\ dpc' = "barrier"
                       /\ gbar' = [gbar EXCEPT ![drank] = @ + 1]
                       /\ brecv' = brecv + 1
                       /\ bcastData' = bcastData
                  ELSE IF m.tag = DispatcherAction_finalize
                  THEN /\ dpc' = "finalized"
                       /\ \E b \in ReplyBest : bcastData' = <<b>>
                       /\ UNCHANGED <<gbar, brecv>>
                  ELSE UNCHANGED <<dpc, gbar, brecv, bcastData>>
    /\ UNCHANGED <<drank, pc, calls, wbar, consumed, returned, lastRet, bsent>>
    /\ UNCHANGED nsent
    /\ UNCHANGED <<qvars, ivars, cvars>>

\* the dispatcher leaves comm.Barrier()
DispatcherBarrierReturn ==
    /\ dpc = "barrier"
    /\ \A r \in Ranks : gbar[r] >= gbar[drank]
    /\ dpc' = "serve"
    /\ UNCHANGED <<drank, pc, calls, toDisp, toWorker, matched, wbar, gbar,
                   bcastData, consumed, returned, lastRet, bsent, brecv>>
    /\ UNCHANGED <<nsent, received>>
    /\ UNCHANGED <<qvars, ivars, cvars>>

(* ------------------------------ handshake ------------------------------ *)

\* the fields of a process before its handshake: all None.  bcast_ranks is
\* not a field: it holds the ranks of the communicator on which the process
\* called bcast, once it has
NoFields ==
    [dispatcher_rank |-> <<>>, root_worker_comm_rank |-> <<>>,
     worker_comm_rank |-> <<>>, root_worker_worker_comm_rank |-> <<>>,
     bcast_ranks |-> <<>>]

\* no process has started its handshake
HandshakeIdle ==
    /\ ipc = [r \in Ranks |-> "start"]
    /\ iself = [r \in Ranks |-> NoFields]

\* a comm of any size up to Size, each rank passing either ptype
HandshakeInit ==
    /\ isize \in 1..Size
    /\ ptype \in [Ranks -> {ProcessType_worker, ProcessType_dispatcher}]
    /\ \A r \in Ranks \ CommRanks(isize) : ptype[r] = ProcessType_worker
    /\ HandshakeIdle

\* how far along its construction a process is
Stage(p) ==
    CASE p = "start" -> 0
      [] p = "allreduce_sum" -> 1
      [] p = "AssertionError" -> 1
      [] p = "allreduce_maxloc" -> 2
      [] p = "split" -> 3
      [] p = "init_returned" -> 4
      [] p = "bcast" -> 5
      [] p = "done" -> 6

\* every rank of comm has entered the collective of stage k
AllEntered(k) == \A q \in CommRanks(isize) : Stage(ipc[q]) >= k

\* _init: the assertions on ptype pass; enter the SUM allreduce
InitCall(r) ==
    /\ r \in CommRanks(isize)
    /\ ipc[r] = "start"
    /\ ipc' = [ipc EXCEPT ![r] = "allreduce_sum"]
    /\ UNCHANGED <<isize, ptype, iself>>
    /\ UNCHANGED <<qvars, pvars, cvars>>

\* _init: the SUM allreduce returns; assert there is one dispatcher and
\* enter the MAXLOC allreduce
InitSum(r) ==
    /\ r \in CommRanks(isize)
    /\ ipc[r] = "allreduce_sum"
    /\ AllEntered(1)
    /\ LET types_sum == allreduce_SUM(ptype, CommRanks(isize))
       IN  ipc' = [ipc EXCEPT ![r] =
                      IF types_sum = ProcessType_dispatcher
                      THEN "allreduce_maxloc"
                      ELSE "AssertionError"]
    /\ UNCHANGED <<isize, ptype, iself>>
    /\ UNCHANGED <<qvars, pvars, cvars>>

\* _init: the MAXLOC allreduce returns; assert on the dispatcher's rank,
\* pick the root worker and enter comm.Split
InitMaxloc(r) ==
    /\ r \in CommRanks(isize)
    /\ ipc[r] = "allreduce_maxloc"
    /\ AllEntered(2)
    /\ LET res == allreduce_MAXLOC(ptype, CommRanks(isize))
           dptype == res[1]
           d == res[2]
           ok == /\ dptype = ProcessType_dispatcher
                 /\ IF ptype[r] = ProcessType_dispatcher THEN d = r ELSE d # r
       IN  IF ok
           THEN /\ iself' = [iself EXCEPT ![r] =
                       [@ EXCEPT !.dispatcher_rank = <<d>>,
                                 !.root_worker_comm_rank =
                                     <<init_root_rank(isize, d)>>]]
                /\ ipc' = [ipc EXCEPT ![r] = "split"]
           ELSE /\ ipc' = [ipc EXCEPT ![r] = "AssertionError"]
                /\ UNCHANGED iself
    /\ UNCHANGED <<isize, ptype>>
    /\ UNCHANGED <<qvars, pvars, cvars>>

\* faulty __init__: the root worker takes its rank in comm
own_root_worker_worker_comm_rank_comm(r, root, wrank) ==
    IF r = root THEN <<r>> ELSE <<>>

\* __init__: root_worker_worker_comm_rank before the bcast, on the process
\* with comm.rank r and worker_comm.rank wrank
own_root_worker_worker_comm_rank(r, root, wrank) ==
    IF r = root THEN <<wrank>> ELSE <<>>

\* __init__: the ranks of the communicator the bcast is called on, self.comm
bcast_group(n, d) == CommRanks(n)

\* _init: comm.Split returns and so does _init.  A worker's __init__ goes
\* on: it sets root_worker_worker_comm_rank and enters the bcast
InitSplit(r) ==
    /\ r \in CommRanks(isize)
    /\ ipc[r] = "split"
    /\ AllEntered(3)
    /\ LET d == iself[r].dispatcher_rank[1]
           root == iself[r].root_worker_comm_rank[1]
           wrank == Split_rank(isize, d, r)
       IN  IF ptype[r] = ProcessType_worker
           THEN /\ iself' = [iself EXCEPT ![r] =
                       [@ EXCEPT !.worker_comm_rank = <<wrank>>,
                                 !.root_worker_worker_comm_rank =
                                     own_root_worker_worker_comm_rank(
                                         r, root, wrank),
                                 !.bcast_ranks = <<bcast_group(isize, d)>>]]
                /\ ipc' = [ipc EXCEPT ![r] = "bcast"]
           ELSE /\ iself' = [iself EXCEPT ![r] =
                       [@ EXCEPT !.worker_comm_rank = <<wrank>>]]
                /\ ipc' = [ipc EXCEPT ![r] = "init_returned"]
    /\ UNCHANGED <<isize, ptype>>
    /\ UNCHANGED <<qvars, pvars, cvars>>

\* the dispatcher, a rank of the communicator the bcast is called on,
\* enters the bcast
DispatcherInitBcast(r) ==
    /\ r \in CommRanks(isize)
    /\ ipc[r] = "init_returned"
    /\ r \in bcast_group(isize, iself[r].dispatcher_rank[1])
    /\ iself[r].root_worker_comm_rank[1] \in bcast_group(isize, r)
    /\ ipc' = [ipc EXCEPT ![r] = "bcast"]
    /\ UNCHANGED <<isize, ptype, iself>>
    /\ UNCHANGED <<qvars, pvars, cvars>>

\* __init__: the bcast returns the value its root entered it with
InitBcastReturn(r) ==
    /\ r \in CommRanks(isize)
    /\ ipc[r] = "bcast"
    /\ LET root == iself[r].root_worker_comm_rank[1]
       IN  /\ Stage(ipc[root]) >= 5
           /\ iself' = [iself EXCEPT ![r] =
                  IF ptype[r] = ProcessType_worker
                  THEN [@ EXCEPT !.root_worker_worker_comm_rank =
                                     iself[root].root_worker_worker_comm_rank]
                  ELSE @]
    /\ ipc' = [ipc EXCEPT ![r] = "done"]
    /\ UNCHANGED <<isize, ptype>>
    /\ UNCHANGED <<qvars, pvars, cvars>>

(* ------------------------------- codec --------------------------------- *)

\* the sequences of at most n elements of S
RECURSIVE SeqsUpTo(_, _)
SeqsUpTo(S, n) ==
    IF n = 0
    THEN {<<>>}
    ELSE LET shorter == SeqsUpTo(S, n - 1)
         IN  shorter \cup {Append(q, x) : q \in shorter, x \in S}

\* the arguments of the updates that are packed and unpacked: two best
\* objectives, counts that are floats and one that is not, and every list
\* of at most MaxStates node states
CodecArgs ==
    {<<b, 15, e, ns>> : b \in {20, 5},
                        e \in {0, 7, FloatExactMax, FloatExactMax + 1},
                        ns \in SeqsUpTo(CodecStates, MaxStates)}

\* the dispatcher's reading of an update frame: k states from pos on, each
\* a length and that many values
RECURSIVE unpack_states(_, _, _, _)
unpack_states(data, k, pos, states) ==
    IF k = 0
    THEN states
    ELSE LET n == to_int(data[pos + 1])
         IN  unpack_states(data, k - 1, (pos + 1) + n,
                           Append(states, [q \in 1..n |-> data[pos + 1 + q]]))

\* the dispatcher's reading of an update frame: best_objective,
\* previous_bound, explored_nodes_count, node_states
unpack(data) ==
    <<data[1], data[2], to_int(data[3]),
      unpack_states(data, to_int(data[4]), 4, <<>>)>>

\* nothing is being packed
CodecIdle ==
    /\ cargs \in UpdateArgs
    /\ cframe = <<>>
    /\ cdec = <<>>
    /\ cpc = "start"

\* _update up to the Send, on the arguments cargs
Pack ==
    /\ cpc = "start"
    /\ \E junk \in Junk :
        LET f == update_frame(cargs, junk)
        IN  /\ cframe' = f.data
            /\ cpc' = IF f.raised = "none" THEN "packed" ELSE f.raised
    /\ UNCHANGED <<cargs, cdec>>
    /\ UNCHANGED <<qvars, pvars, ivars>>

\* the dispatcher reads the frame
Unpack ==
    /\ cpc = "packed"
    /\ cdec' = unpack(cframe)
    /\ cpc' = "unpacked"
    /\ UNCHANGED <<cargs, cframe>>
    /\ UNCHANGED <<qvars, pvars, ivars>>

(* --------------------------- specifications ---------------------------- *)

\* the queue: a queue of any class and sense, before any worker acts
Init ==
    /\ kind \in Kinds
    /\ sense \in {minimize, maximize}
    /\ best_objective \in BestValues
    /\ QueueInit
    /\ ProxyInit
    /\ drank = 0
    /\ isize = Size
    /\ ptype = [r \in Ranks |-> ProcessType_worker]
    /\ HandshakeIdle
    /\ CodecIdle

Next == Put \/ Get \/ Bound \/ UpdateForBestObjective

Spec == Init /\ [][Next]_vars

\* the proxies of the workers and the dispatcher they talk to
InitProxy ==
    /\ ProxyInit
    /\ kind = "WorstBoundFirst"
    /\ sense = minimize
    /\ best_objective = 0
    /\ QueueInit
    /\ isize = Size
    /\ ptype = [r \in Ranks |-> ProcessType_worker]
    /\ HandshakeIdle
    /\ CodecIdle

NextProxy ==
    \/ \E w \in Ranks :
        \/ Update(w)
        \/ UpdateReply(w)
        \/ Barrier(w)
        \/ BarrierLocalDone(w)
        \/ BarrierSendDone(w)
        \/ BarrierReturn(w)
        \/ SolveFinished(w)
        \/ Log(w)
        \/ SsendDone(w)
        \/ Finalize(w)
        \/ FinalizeReturn(w)
        \/ DispatcherRecv(w)
    \/ DispatcherBarrierReturn

SpecProxy == InitProxy /\ [][NextProxy]_vars

\* the construction of the proxies and of the dispatcher: the handshake of
\* _init and the bcast of __init__
InitHandshake ==
    /\ HandshakeInit
    /\ ProxyInit
    /\ drank = 0
    /\ kind = "WorstBoundFirst"
    /\ sense = minimize
    /\ best_objective = 0
    /\ QueueInit
    /\ CodecIdle

NextHandshake ==
    \E r \in Ranks :
        \/ InitCall(r)
        \/ InitSum(r)
        \/ InitMaxloc(r)
        \/ InitSplit(r)
        \/ DispatcherInitBcast(r)
        \/ InitBcastReturn(r)

SpecHandshake == InitHandshake /\ [][NextHandshake]_vars

\* the update frame: packed by the worker, read by the dispatcher
InitCodec ==
    /\ cargs \in CodecArgs
    /\ cframe = <<>>
    /\ cdec = <<>>
    /\ cpc = "start"
    /\ ProxyInit
    /\ drank = 0
    /\ isize = Size
    /\ ptype = [r \in Ranks |-> ProcessType_worker]
    /\ HandshakeIdle
    /\ kind = "WorstBoundFirst"
    /\ sense = minimize
    /\ best_objective = 0
    /\ QueueInit

NextCodec == Pack \/ Unpack

SpecCodec == InitCodec /\ [][NextCodec]_vars

(* ============================== claims ================================= *)

\* the entries of a heap or of sorted_by_bound, as a set
Entries(h) == {h[i] : i \in 1..Len(h)}

\* how often value v occurs in the sequence seq
Occurrences(seq, v) == Cardinality({i \in 1..Len(seq) : seq[i] = v})

\* The order in which successive get() calls hand out the queue's nodes:
\* each element is the counter at the root of the heap and the node that
\* get() returned; the drain stops early if a get() raises
RECURSIVE Drain(_, _, _)
Drain(k, q, s) ==
    IF size(q) = 0
    THEN <<>>
    ELSE LET r == get(k, q, s)
         IN  IF r.ret = <<>>
             THEN <<>>
             ELSE <<[cnt |-> q.heap[1][2], node |-> r.ret[1]]>>
                  \o Drain(k, r.q, s)

(* C1: size() equals the number of puts that returned True, minus the     *)
(* number of gets that returned a node, minus the number of nodes returned *)
(* by update_for_best_objective, for every queue class.                    *)
C1_SizeIsPutsMinusGetsMinusPurged == size(Q) = nput - nget - npurged

C1_Witness ==
    /\ kind = "BreadthFirst"
    /\ nput = 3 /\ nget = 1 /\ npurged = 1 /\ size(Q) = 1

(* C2: put(node) returns True and queues the node under a fresh counter    *)
(* exactly when objective_can_improve(B, node.bound), B being the          *)
(* incumbent, which only update_for_best_objective changes; otherwise it   *)
(* returns False, raises nothing and leaves heap, counter, sorted_by_bound *)
(* and incumbent as they were.                                             *)
C2_PutStep ==
    LET data == arg'[1]
    IN  IF objective_can_improve(sense, best_objective, data.bound)
        THEN /\ ret' = <<TRUE>>
             /\ raised' = "none"
             /\ Len(heap') = Len(heap) + 1
             /\ count' = count + 1
             /\ \E e \in Entries(heap') \ Entries(heap) :
                    /\ e[2] = count
                    /\ e[3].bound = data.bound
                    /\ e[3].tree_depth = data.tree_depth
        ELSE /\ ret' = <<FALSE>>
             /\ raised' = "none"
             /\ UNCHANGED <<heap, count, sorted_by_bound, best_objective>>

C3_GetStep ==
    IF Len(heap) = 0
    THEN /\ ret' = <<>>
         /\ raised' = "none"
         /\ UNCHANGED <<heap, count, sorted_by_bound, best_objective>>
    ELSE \E e \in Entries(heap) :
            /\ ret' = <<e[3]>>
            /\ raised' = "none"
            /\ Len(heap') = Len(heap) - 1
            /\ Entries(heap') = Entries(heap) \ {e}
            /\ \A f \in Entries(heap) \ {e} :
                  \/ f[3].queue_priority < e[3].queue_priority
                  \/ /\ f[3].queue_priority = e[3].queue_priority
                     /\ f[2] > e[2]

C3_GetReturnsHighestPriorityFifo == [][op' = "get" => C3_GetStep]_vars

\* two puts of equal priority into a Custom queue, then the first came out
C3_Witness ==
    /\ kind = "Custom" /\ op = "get" /\ count = 2 /\ Len(heap) = 1
    /\ ret # <<>>
    /\ ret[1].queue_priority = heap[1][3].queue_priority
    /\ heap[1][2] = 1

(* C4: a WorstBoundFirst queue with minimize sense hands out its nodes in  *)
(* ascending bound order, equal bounds in ascending counter order.         *)
C4_WorstBoundFirstOrder ==
    (kind = "WorstBoundFirst" /\ sense = minimize) =>
        LET d == Drain(kind, Q, sense)
        IN  /\ Len(d) = size(Q)
            /\ \A i \in 1..Len(d) : \A j \in (i + 1)..Len(d) :
                  \/ d[i].node.bound < d[j].node.bound
                  \/ /\ d[i].node.bound = d[j].node.bound
                     /\ d[i].cnt < d[j].cnt

\* puts with bounds 7, 1, 4: two gets returned 1 then 4 and 7 is left
C4_Witness ==
    /\ kind = "WorstBoundFirst" /\ sense = minimize
    /\ op = "get" /\ nget = 2 /\ ret # <<>> /\ ret[1].bound = 4
    /\ Len(heap) = 1 /\ heap[1][2] = 0 /\ heap[1][3].bound = 7

(* C5: a DepthFirst queue drains in non-increasing tree_depth order, a     *)
(* BreadthFirst queue in non-decreasing tree_depth order, equal depths in  *)
(* ascending counter order, whatever calls produced the contents.          *)
C5_DepthOrder ==
    (kind \in {"DepthFirst", "BreadthFirst"}) =>
        LET d == Drain(kind, Q, sense)
        IN  /\ Len(d) = size(Q)
            /\ \A i \in 1..Len(d) : \A j \in (i + 1)..Len(d) :
                  \/ /\ kind = "DepthFirst"
                     /\ d[i].node.tree_depth > d[j].node.tree_depth
                  \/ /\ kind = "BreadthFirst"
                     /\ d[i].node.tree_depth < d[j].node.tree_depth
                  \/ /\ d[i].node.tree_depth = d[j].node.tree_depth
                     /\ d[i].cnt < d[j].cnt

\* a depth-first queue of three nodes, the deepest inserted last, left by a
\* purge and a get
C5_Witness ==
    /\ kind = "DepthFirst" /\ Len(heap) = 2 /\ count = 3
    /\ nget + npurged = 1
    /\ heap[1][3].tree_depth = 1 /\ heap[2][3].tree_depth = 0
    /\ heap[1][2] > heap[2][2]

\* the weakest bound among the queued nodes, None for an empty queue
WeakestBound(h, s) ==
    IF Len(h) = 0
    THEN <<>>
    ELSE <<CHOOSE b \in {e[3].bound : e \in Entries(h)} :
             \A e \in Entries(h) :
                IF s = minimize THEN b <= e[3].bound ELSE b >= e[3].bound>>

(* C6: for Custom, DepthFirst and BreadthFirst queues bound() is the       *)
(* minimum bound of the queued nodes in minimize sense, the maximum in     *)
(* maximize sense, and None for an empty queue.                            *)
C6_CustomBoundIsWeakest ==
    (kind \in CustomKinds) =>
        LET r == bound(kind, Q, sense)
        IN  /\ r.raised = "none"
            /\ r.ret = WeakestBound(heap, sense)

\* bound() answered 7 on a maximize queue that holds a smaller bound too,
\* after a get and a purge
C6_Witness ==
    /\ kind \in CustomKinds /\ sense = maximize
    /\ op = "bound" /\ ret = <<7>> /\ Len(heap) = 2
    /\ \E e \in Entries(heap) : e[3].bound = 4

(* C7: for a WorstBoundFirst queue bound() is the weakest bound of the     *)
(* queued nodes, None for an empty queue; it does not modify the queue and *)
(* its consistency assertion on the stored priority never fails.           *)
C7_WorstBoundFirstBound ==
    (kind = "WorstBoundFirst") =>
        LET r == bound(kind, Q, sense)
        IN  /\ r.raised = "none"
            /\ r.ret = WeakestBound(heap, sense)
            /\ r.q = Q
            /\ \A e \in Entries(heap) :
                  e[3].bound = IF sense = minimize THEN -e[3].queue_priority
                               ELSE e[3].queue_priority

C7_Witness ==
    /\ kind = "WorstBoundFirst" /\ sense = maximize
    /\ op = "bound" /\ ret = <<7>> /\ Len(heap) = 3 /\ raised = "none"

(* C8: update_for_best_objective(B') splits the queued nodes: those that   *)
(* stay can improve on B', those returned cannot, none is lost or          *)
(* duplicated, B' becomes the incumbent, and for the Custom classes heap   *)
(* and sorted_by_bound have equal length afterwards.                       *)
C8_UpdateStep ==
    LET best == arg'[1]
        gone == Entries(heap) \ Entries(heap')
    IN  /\ raised' = "none"
        /\ best_objective' = best
        /\ count' = count
        /\ Entries(heap') \subseteq Entries(heap)
        /\ Len(heap') = Cardinality(Entries(heap'))
        /\ \A e \in Entries(heap') :
              objective_can_improve(sense, best, e[3].bound)
        /\ \A i \in 1..Len(ret') :
              ~objective_can_improve(sense, best, ret'[i].bound)
        /\ Len(ret') = Cardinality(gone)
        /\ \A e \in gone :
              Occurrences(ret', e[3]) = Cardinality({f \in gone : f[3] = e[3]})
        /\ kind \in CustomKinds => Len(heap') = Len(sorted_by_bound')

C8_UpdatePartitions ==
    [][op' = "update_for_best_objective" => C8_UpdateStep]_vars

\* bounds 1, 4, 7 queued; update_for_best_objective(5) left 1 and 4 and
\* returned 7, and bound() is 1
C8_Witness ==
    /\ kind = "Custom" /\ sense = minimize
    /\ op = "update_for_best_objective" /\ arg = <<5>>
    /\ {e[3].bound : e \in Entries(heap)} = {1, 4}
    /\ Len(ret) = 1 /\ ret[1].bound = 7
    /\ bound(kind, Q, sense).ret = <<1>>

(* C9: a worker has consumed as many dispatcher responses as update calls  *)
(* of its have returned.  A response is consumed only by an update that    *)
(* is waiting for it, which then returns (payload[0], None) for nowork     *)
(* and (state[0], state) for work; a reply with another tag makes update   *)
(* raise AssertionError without consuming or returning; barrier,           *)
(* solve_finished, finalize and log_* consume nothing.                     *)
C9_WorkerStep(w) ==
    /\ (consumed'[w] # consumed[w] \/ returned'[w] # returned[w]
        \/ Len(toWorker'[w]) < Len(toWorker[w])) =>
          /\ pc[w] = "update_probe"
          /\ toWorker[w] # <<>>
          /\ consumed'[w] = consumed[w] + 1
          /\ returned'[w] = returned[w] + 1
          /\ toWorker'[w] = Tail(toWorker[w])
          /\ pc'[w] = "idle"
          /\ LET m == Head(toWorker[w])
             IN  \/ /\ m.tag = DispatcherResponse_nowork
                    /\ lastRet'[w] = <<m.data[1], <<>>>>
                 \/ /\ m.tag = DispatcherResponse_work
                    /\ lastRet'[w] = <<m.data[1], <<m.data>>>>
    /\ (/\ pc[w] = "update_probe"
        /\ pc'[w] # "update_probe"
        /\ Head(toWorker[w]).tag \notin
              {DispatcherResponse_work, DispatcherResponse_nowork}) =>
          /\ pc'[w] = "AssertionError"
          /\ toWorker'[w] = toWorker[w]

C9_OneResponsePerUpdate ==
    /\ [](\A w \in Workers : consumed[w] = returned[w])
    /\ [][\A w \in Workers : C9_WorkerStep(w)]_vars

\* a worker whose two updates returned, the last one with nowork, and a
\* worker that called barrier
C9_Witness ==
    \E w, v \in Workers :
        /\ returned[w] = 2 /\ consumed[w] = 2
        /\ pc[w] = "idle" /\ lastRet[w] = <<1, <<>>>>
        /\ pc[v] = "barrier_wcomm"

\* number of barrier() calls of worker w that have returned
BarrierReturns(w) == IF pc[w] = "barrier_comm" THEN gbar[w] - 1 ELSE gbar[w]

(* C10: in every barrier() round every worker has entered                  *)
(* worker_comm.Barrier() before the root worker issues the barrier         *)
(* message, the dispatcher has received that message before the root       *)
(* worker enters comm.Barrier(), and no worker returns from barrier()      *)
(* before the dispatcher has received it.                                  *)
C10_BarrierOrder ==
    /\ \A w \in Workers : bsent <= wbar[w]
    /\ brecv <= bsent
    /\ gbar[root_worker_comm_rank] <= brecv
    /\ \A w \in Workers : BarrierReturns(w) <= brecv

\* every worker has returned from a barrier() round
C10_Witness ==
    /\ \A w \in Workers : pc[w] = "idle" /\ gbar[w] = 1 /\ wbar[w] = 1
    /\ bsent = 1 /\ brecv = 1

\* the ranks of comm that pass ProcessType.dispatcher to _init
Dispatchers == {r \in CommRanks(isize) : ptype[r] = ProcessType_dispatcher}

\* _init has returned on rank r
InitReturned(r) == Stage(ipc[r]) >= 4

(* C11: in a comm of size >= 2 in which exactly one rank passes            *)
(* ProcessType.dispatcher, _init fails no assertion on any rank and is     *)
(* never stuck before it has returned on every rank; every rank gets the   *)
(* same drank, the rank of the dispatcher, and the same root worker rank,  *)
(* which differs from drank, lies in [0, size) and is the largest rank     *)
(* that is not drank.                                                      *)
C11_HandshakeAgrees ==
    (isize >= 2 /\ Cardinality(Dispatchers) = 1) =>
        LET d == CHOOSE r \in Dispatchers : TRUE
        IN  /\ \A r \in CommRanks(isize) :
                 /\ ipc[r] # "AssertionError"
                 /\ Stage(ipc[r]) >= 3 =>
                       /\ iself[r].dispatcher_rank = <<d>>
                       /\ \E root \in CommRanks(isize) \ {d} :
                             /\ iself[r].root_worker_comm_rank = <<root>>
                             /\ \A q \in CommRanks(isize) \ {d} : q <= root
            /\ (\E r \in CommRanks(isize) : ~InitReturned(r)) =>
                  \E r \in CommRanks(isize) :
                     ENABLED (InitCall(r) \/ InitSum(r) \/ InitMaxloc(r)
                              \/ InitSplit(r))

C11_Witness ==
    /\ isize = 3
    /\ Dispatchers = {2}
    /\ \A r \in CommRanks(isize) : InitReturned(r)
    /\ \A r \in CommRanks(isize) :
          iself[r].dispatcher_rank = <<2>> /\ iself[r].root_worker_comm_rank = <<1>>

\* the update frames of worker w that the dispatcher has received, in the
\* order it received them
UpdatesReceived(w) == SelectSeq(received[w], LAMBDA e : e.action = "update")

\* the positions in worker w's channel that hold an update frame
UpdatesInFlight(w) ==
    {i \in 1..Len(toDisp[w]) : toDisp[w][i].tag = DispatcherAction_update}

(* C12: the dispatcher receives the update frames of a worker in the order *)
(* the worker issued them, whatever the other workers and the dispatcher   *)
(* do in between: a frame received later was issued later, at most one     *)
(* frame of a worker is in flight, and it was issued after every frame of  *)
(* that worker already received.                                           *)
C12_UpdatesInIssueOrder ==
    \A w \in Workers :
        LET u == UpdatesReceived(w)
        IN  /\ \A i, j \in 1..Len(u) : i < j => u[i].id < u[j].id
            /\ Cardinality(UpdatesInFlight(w)) <= 1
            /\ \A i \in UpdatesInFlight(w) : \A j \in 1..Len(u) :
                  u[j].id < toDisp[w][i].id

C12_Witness ==
    \E w, v \in Workers :
        /\ w # v
        /\ Len(UpdatesReceived(w)) = 2
        /\ Len(UpdatesReceived(v)) = 1

\* the number of finalize messages worker w has issued: those in flight and
\* those the dispatcher received
FinalizeIssued(w) ==
    Cardinality({i \in 1..Len(toDisp[w]) :
                    toDisp[w][i].tag = DispatcherAction_finalize})
    + Len(SelectSeq(received[w], LAMBDA e : e.action = "finalize"))

(* C13: in finalize the root worker has sent its one finalize message by   *)
(* the time it is in the bcast, no other worker ever sends one, and every  *)
(* worker's finalize returns the value the dispatcher broadcast, which it  *)
(* broadcast after receiving the root worker's message.                    *)
C13_FinalizeRound ==
    \A w \in Workers :
        /\ FinalizeIssued(w) =
              IF w = root_worker_comm_rank
                 /\ pc[w] \in {"finalize_bcast", "finalized"}
              THEN 1 ELSE 0
        /\ pc[w] = "finalized" =>
              /\ dpc = "finalized"
              /\ \E b \in ReplyBest : bcastData = <<b>> /\ lastRet[w] = <<b>>
              /\ \E i \in 1..Len(received[root_worker_comm_rank]) :
                    received[root_worker_comm_rank][i].action = "finalize"

C13_Witness ==
    /\ drank = 0
    /\ \A w \in Workers : pc[w] = "finalized" /\ lastRet[w] = <<2>>

\* the layout of the frame of the arguments a: the four header slots, then
\* each state's length and its values
RECURSIVE LayoutStates(_, _)
LayoutStates(node_states, i) ==
    IF i > Len(node_states)
    THEN <<>>
    ELSE <<Len(node_states[i]) * Unit>> \o node_states[i]
         \o LayoutStates(node_states, i + 1)

Layout(a) == <<a[1], a[2], a[3] * Unit, Len(a[4]) * Unit>> \o LayoutStates(a[4], 1)

\* 4 + the sum over the states of (1 + len_i)
RECURSIVE FrameLength(_, _)
FrameLength(node_states, i) ==
    IF i > Len(node_states)
    THEN 4
    ELSE (1 + Len(node_states[i])) + FrameLength(node_states, i + 1)

\* the int n is a float
ExactlyRepresentable(n) == n <= FloatExactMax \/ n % 2 = 0

(* C14: the frame update builds has length 4 + sum of (1 + len_i) and the  *)
(* layout [best_objective, previous_bound, explored_nodes_count, k, then   *)
(* for each state its length and its values]; reading that layout back     *)
(* gives the arguments; update builds the frame whenever                   *)
(* explored_nodes_count is exactly representable; and                      *)
(* update(2.0, 1.5, 7, [[0.1, 0.2], [0.3]]) builds                         *)
(* [2.0, 1.5, 7.0, 2.0, 2.0, 0.1, 0.2, 1.0, 0.3].                          *)
C14_FrameRoundTrip ==
    /\ cpc \in {"packed", "unpacked"} =>
          /\ Len(cframe) = FrameLength(cargs[4], 1)
          /\ cframe = Layout(cargs)
    /\ cpc = "unpacked" => cdec = cargs
    /\ (cpc # "start" /\ ExactlyRepresentable(cargs[3])) =>
          cpc \in {"packed", "unpacked"}
    /\ cargs = <<20, 15, 7, << <<1, 2>>, <<3>> >> >> /\ cpc # "start" =>
          cframe = <<20, 15, 70, 20, 20, 1, 2, 10, 3>>

C14_Witness ==
    /\ cargs = <<20, 15, 7, << <<1, 2>>, <<3>> >> >>
    /\ cpc = "unpacked"
    /\ cframe = <<20, 15, 70, 20, 20, 1, 2, 10, 3>>
    /\ cdec = cargs

(* C15: in a Custom, BreadthFirst or DepthFirst queue, after every put,    *)
(* get and update_for_best_objective the heap and sorted_by_bound have the *)
(* same number of entries and every counter in the heap has exactly one    *)
(* entry in sorted_by_bound, with the same node and the signed bound of    *)
(* that node; so no call has raised, and the next get, bound or update     *)
(* finds the entries it removes and passes the size assertion of bound().  *)
C15_HeapMirrorsSortedByBound ==
    kind \in CustomKinds =>
        /\ Len(heap) = Len(sorted_by_bound)
        /\ \A i \in 1..Len(heap) :
              LET js == {j \in 1..Len(sorted_by_bound) :
                            sorted_by_bound[j][2] = heap[i][2]}
              IN  /\ Cardinality(js) = 1
                  /\ \A j \in js :
                        /\ sorted_by_bound[j][3] = heap[i][3]
                        /\ sorted_by_bound[j][1] =
                              signed_bound(sense, Node_extract_bound(heap[i][3]))
        /\ raised = "none"
        /\ get(kind, Q, sense).raised = "none"
        /\ bound(kind, Q, sense).raised = "none"
        /\ \A best \in BestValues :
              update_for_best_objective(kind, Q, sense, best).raised = "none"

C15_Witness ==
    /\ kind = "DepthFirst"
    /\ op = "update_for_best_objective"
    /\ nput = 3 /\ nget = 1 /\ npurged = 1
    /\ Len(heap) = 1 /\ Len(sorted_by_bound) = 1

(* C16: the insertion counter is never reused.  The next counter equals    *)
(* the number of accepted puts so far, whatever was removed since; every   *)
(* queued entry has a counter below it; no two queued entries share a      *)
(* counter; and an accepted put has queued its node under the counter      *)
(* that follows all those handed out before.                               *)
C16_CountersNeverReused ==
    /\ count = nput
    /\ \A i \in 1..Len(heap) : 0 <= heap[i][2] /\ heap[i][2] < count
    /\ \A i, j \in 1..Len(heap) : i # j => heap[i][2] # heap[j][2]
    /\ (op = "put" /\ ret = <<TRUE>>) =>
          \E i \in 1..Len(heap) :
              /\ heap[i][2] = nput - 1
              /\ Node_extract_bound(heap[i][3]) = Node_extract_bound(arg[1])

C16_Witness ==
    /\ op = "put" /\ ret = <<TRUE>>
    /\ nput = 3 /\ nget = 1 /\ npurged = 1
    /\ Len(heap) = 1 /\ heap[1][2] = 2

(* C17: update_for_best_objective keeps every surviving entry as it was,   *)
(* priority and counter included, so the nodes that survive come out of    *)
(* the following get() calls in the order in which they would have come    *)
(* out without the purge.                                                  *)
C17_PurgeKeepsOrder ==
    \A best \in BestValues :
        LET r == update_for_best_objective(kind, Q, sense, best)
            kept == {e[2] : e \in Entries(r.q.heap)}
        IN  /\ r.raised = "none"
            /\ Entries(r.q.heap) \subseteq Entries(heap)
            /\ Drain(kind, r.q, sense) =
                  SelectSeq(Drain(kind, Q, sense), LAMBDA e : e.cnt \in kept)

C17_Witness ==
    /\ kind = "Custom"
    /\ op = "update_for_best_objective"
    /\ npurged = 1
    /\ Len(heap) = 2
    /\ heap[1][2] > heap[2][2]
    /\ Len(Drain(kind, Q, sense)) = 2

\* the state of worker w as the proxy sees it: AWAITING_RESPONSE inside
\* update, WORKING or TERMINATING when its last call was an update that
\* returned a state or None, IDLE otherwise
WorkerState(w) ==
    IF pc[w] = "update_probe"
    THEN "AWAITING_RESPONSE"
    ELSE IF pc[w] = "idle" /\ Len(lastRet[w]) = 2
    THEN IF lastRet[w][2] # <<>> THEN "WORKING" ELSE "TERMINATING"
    ELSE IF pc[w] = "idle"
    THEN "IDLE"
    ELSE pc[w]

\* a step of the model, seen from worker w
C18_WorkerStep(w) ==
    /\ (WorkerState(w) # "AWAITING_RESPONSE"
          /\ WorkerState(w)' = "AWAITING_RESPONSE") =>
            /\ pc[w] = "idle"
            /\ nsent'[w] = nsent[w] + 1
            /\ toDisp'[w][Len(toDisp'[w])].tag = DispatcherAction_update
            /\ toDisp'[w][Len(toDisp'[w])].id = nsent'[w]
    /\ WorkerState(w) = "AWAITING_RESPONSE" =>
            /\ nsent'[w] = nsent[w]
            /\ Len(toDisp'[w]) <= Len(toDisp[w])
    /\ (WorkerState(w) = "AWAITING_RESPONSE"
          /\ WorkerState(w)' # "AWAITING_RESPONSE") =>
            /\ toWorker[w] # <<>>
            /\ LET m == Head(toWorker[w])
               IN  /\ m.tag = DispatcherResponse_work =>
                         /\ WorkerState(w)' = "WORKING"
                         /\ lastRet'[w] = <<m.data[1], <<m.data>>>>
                   /\ m.tag = DispatcherResponse_nowork =>
                         /\ WorkerState(w)' = "TERMINATING"
                         /\ lastRet'[w] = <<m.data[1], <<>>>>
                   /\ m.tag \notin {DispatcherResponse_work,
                                     DispatcherResponse_nowork} =>
                         WorkerState(w)' = "AssertionError"

(* C18: a worker enters AWAITING_RESPONSE only by issuing an update from   *)
(* a state in which no call is in progress; it leaves it only when a reply *)
(* is there, to WORKING with the state of the reply when the tag is work   *)
(* and to TERMINATING with None and the best objective of the reply when   *)
(* the tag is nowork; while it waits it sends nothing; and it never has    *)
(* more than one update outstanding.                                       *)
C18_WorkerStateMachine ==
    /\ [](\A w \in Workers :
            /\ Cardinality(UpdatesInFlight(w)) + Len(toWorker[w]) <= 1
            /\ Cardinality(UpdatesInFlight(w)) + Len(toWorker[w]) = 1 =>
                  WorkerState(w) \in {"AWAITING_RESPONSE", "AssertionError"})
    /\ [][\A w \in Workers : C18_WorkerStep(w)]_vars

C18_Witness ==
    \E w \in Workers :
        /\ returned[w] = 2
        /\ WorkerState(w) = "TERMINATING"
        /\ lastRet[w] = <<2, <<>>>>

(* C19: the dispatcher receives the messages of one worker in the order    *)
(* the worker issued them, whatever their tags: what it has received from  *)
(* a worker are that worker's first messages, in order, and a message      *)
(* still in flight was issued after all of them.                           *)
C19_IssueOrderAcrossTags ==
    \A w \in Workers :
        /\ \A i \in 1..Len(received[w]) : received[w][i].id = i
        /\ \A i \in 1..Len(toDisp[w]) : toDisp[w][i].id > Len(received[w])
        /\ Len(received[w]) + Len(toDisp[w]) = nsent[w]

C19_Witness ==
    \E w \in Workers :
        /\ Len(received[w]) = 3
        /\ received[w][1].action = "log"
        /\ received[w][2].action = "update"
        /\ received[w][3].action = "finalize"

\* the ranks that pass ProcessType.worker to _init: the members of wcomm
WcommRanks == CommRanks(isize) \ Dispatchers

\* the bcast of __init__ has returned on every rank of comm
ConstructionDone == \A r \in CommRanks(isize) : ipc[r] = "done"

(* C20 as stated: in the construction of the proxies the root worker's     *)
(* rank is broadcast within wcomm, so that only workers take part in the   *)
(* bcast and the dispatcher does not; after it every worker holds the      *)
(* root worker's rank in wcomm.                                            *)
C20_BcastWithinWcomm ==
    /\ \A r \in CommRanks(isize) :
          /\ iself[r].bcast_ranks # <<>> =>
                iself[r].bcast_ranks = <<WcommRanks>>
          /\ Stage(ipc[r]) >= 5 => r \in WcommRanks
    /\ \A r \in WcommRanks :
          ipc[r] = "done" =>
              \E d \in Dispatchers :
                  iself[r].root_worker_worker_comm_rank =
                      <<Split_rank(isize, d, init_root_rank(isize, d))>>

(* C20 amended: the root worker's rank in wcomm is broadcast on comm, the  *)
(* communicator of all processes, from the root worker's rank in comm: the *)
(* ranks that take part are those of comm, the dispatcher among them;      *)
(* after it every worker holds the root worker's rank in wcomm.            *)
C20_BcastOnComm ==
    /\ \A r \in CommRanks(isize) :
          /\ iself[r].bcast_ranks # <<>> =>
                /\ iself[r].bcast_ranks = <<CommRanks(isize)>>
                /\ Dispatchers \subseteq iself[r].bcast_ranks[1]
    /\ \A r \in WcommRanks :
          ipc[r] = "done" =>
              \E d \in Dispatchers :
                  iself[r].root_worker_worker_comm_rank =
                      <<Split_rank(isize, d, init_root_rank(isize, d))>>

C20_Witness ==
    /\ isize = 3
    /\ Dispatchers = {0}
    /\ ConstructionDone
    /\ \A r \in WcommRanks :
          /\ iself[r].root_worker_worker_comm_rank = <<1>>
          /\ iself[r].root_worker_comm_rank = <<2>>

\* the test of _barrier on worker w: comm.rank == root_worker_comm_rank
BarrierRootTest(w) == w = root_worker_comm_rank

\* the test of _finalize and the assertion of _solve_finished on worker w:
\* worker_comm.rank == root_worker_worker_comm_rank
FinalizeRootTest(w) == worker_comm_rank(drank, w) = root_worker_worker_comm_rank

\* the number of barrier messages worker w has issued: those in flight and
\* those the dispatcher received
BarrierIssued(w) ==
    Cardinality({i \in 1..Len(toDisp[w]) :
                    toDisp[w][i].tag = DispatcherAction_barrier})
    + Len(SelectSeq(received[w], LAMBDA e : e.action = "barrier"))

\* the number of times worker w has left worker_comm.Barrier()
RoundsPassed(w) == IF pc[w] = "barrier_wcomm" THEN wbar[w] - 1 ELSE wbar[w]

(* C21: whatever the dispatcher's rank, the root test of barrier and the   *)
(* root test of finalize and solve_finished hold on the same workers, and  *)
(* on exactly one; so in every barrier round one worker, and only that     *)
(* one, issues a barrier message once it has left worker_comm.Barrier(),   *)
(* and in finalize one worker, and only that one, issues a finalize        *)
(* message.                                                                *)
C21_RootTestsAgree ==
    /\ \A w \in Workers : BarrierRootTest(w) <=> FinalizeRootTest(w)
    /\ Cardinality({w \in Workers : BarrierRootTest(w)}) = 1
    /\ \A w \in Workers :
          /\ BarrierIssued(w) = IF BarrierRootTest(w) THEN RoundsPassed(w) ELSE 0
          /\ FinalizeIssued(w) =
                IF FinalizeRootTest(w)
                   /\ pc[w] \in {"finalize_bcast", "finalized"}
                THEN 1 ELSE 0

C21_Witness ==
    /\ drank = 0
    /\ root_worker_comm_rank # root_worker_worker_comm_rank
    /\ \A w \in Workers : wbar[w] = 1 /\ RoundsPassed(w) = 1
    /\ \E w \in Workers : BarrierIssued(w) = 1 /\ FinalizeIssued(w) = 1
    /\ brecv = 1


====
